---- MODULE Spec2Model ----
(***************************************************************************)
(* A model of lp_irl (src/lp_irl.py): linear-programming inverse           *)
(* reinforcement learning.  One call of lp_irl is a pipeline               *)
(*    Tpi -> Tnotpi -> T_disc_inv -> (c, A_ub, b_ub) -> four assembly       *)
(*    stages -> linprog -> normalize -> return                              *)
(* and every step of it is one action.  numpy's floats are modelled by     *)
(* exact rationals <<p, q>> (q > 0, lowest terms); q = 0 stands for the    *)
(* IEEE results of a division by zero: <<0, 0>> is NaN, <<1, 0>> is +inf,  *)
(* <<-1, 0>> is -inf.  Sequences are 1-based; the code's 0-based index i   *)
(* is position i + 1.                                                      *)
(***************************************************************************)
EXTENDS Integers, Sequences, FiniteSets, TLC

VARIABLES S, A, T, gamma, pi, l1, Rmax,     \* the arguments of lp_irl
          pc,                                \* position in lp_irl
          call,                              \* which call on these arguments
          Tpi, Tnotpi, T_disc_inv,           \* lines 43-64
          inv_called,                        \* np.linalg.inv has been entered
          c, A_ub, b_ub,                     \* the LP triple
          res, rewards,                      \* linprog's result, the output
          error,                             \* the exception that ended the call
          prev                               \* what the previous call handed over

vars == <<S, A, T, gamma, pi, l1, Rmax, pc, call, Tpi, Tnotpi, T_disc_inv,
          inv_called, c, A_ub, b_ub, res, rewards, error, prev>>

inputs == <<S, A, T, gamma, pi, l1, Rmax>>

(***************************************************************************)
(* Bounds of the model.                                                    *)
(***************************************************************************)
\* the solver's iterates are searched on the lattice (0..XMax)^(3n)
XMax == 2
\* the solution vectors fed to the reward extraction have up to MaxExtractN
\* true reward entries
MaxExtractN == 3
\* the assembly is run for action sets of 1..MaxActions actions
MaxActions == 3

(***************************************************************************)
(* Exact rational arithmetic standing for numpy's float64.                 *)
(***************************************************************************)
Abs(x) == IF x < 0 THEN -x ELSE x

Sgn(x) == IF x < 0 THEN -1 ELSE IF x > 0 THEN 1 ELSE 0

RECURSIVE GCD(_, _)
GCD(a, b) == IF b = 0 THEN a ELSE GCD(b, a % b)

\* p / q as a float: lowest terms, positive denominator; x / 0 is nan or +-inf
Rat(p, q) ==
    IF q = 0 THEN <<Sgn(p), 0>>
    ELSE LET g == GCD(Abs(p), Abs(q))
             s == IF q < 0 THEN -1 ELSE 1
         IN  <<(s * p) \div g, (s * q) \div g>>

RInt(i) == <<i, 1>>

Zero == RInt(0)

One == RInt(1)

NaN == <<0, 0>>

RAdd(x, y) == Rat(x[1] * y[2] + y[1] * x[2], x[2] * y[2])

RSub(x, y) == Rat(x[1] * y[2] - y[1] * x[2], x[2] * y[2])

RMul(x, y) == Rat(x[1] * y[1], x[2] * y[2])

RDiv(x, y) == Rat(x[1] * y[2], x[2] * y[1])

RNeg(x) == <<-x[1], x[2]>>

IsFinite(x) == x[2] # 0

\* float comparison: anything compared with nan is false
RLe(x, y) == IsFinite(x) /\ IsFinite(y) /\ x[1] * y[2] <= y[1] * x[2]

RLt(x, y) == IsFinite(x) /\ IsFinite(y) /\ x[1] * y[2] < y[1] * x[2]

(***************************************************************************)
(* numpy arrays.  A vector is a sequence; an n x n matrix is a sequence of *)
(* rows.  A_ub, whose row count starts at 0, carries its shape as numpy    *)
(* does: [shape |-> <<rows, columns>>, rows |-> sequence of rows].         *)
(***************************************************************************)
RECURSIVE SumSeq(_)
SumSeq(v) == IF v = <<>> THEN Zero ELSE RAdd(Head(v), SumSeq(Tail(v)))

Dot(u, v) == SumSeq([j \in 1..Len(u) |-> RMul(u[j], v[j])])

zeros(r, w) == [i \in 1..r |-> [j \in 1..w |-> Zero]]

ones(w) == [j \in 1..w |-> One]

identity(m) == [i \in 1..m |-> [j \in 1..m |-> IF i = j THEN One ELSE Zero]]

MatSub(M, N) == [i \in 1..Len(M) |-> [j \in 1..Len(M[i]) |-> RSub(M[i][j], N[i][j])]]

MatScale(a, M) == [i \in 1..Len(M) |-> [j \in 1..Len(M[i]) |-> RMul(a, M[i][j])]]

Column(M, j) == [i \in 1..Len(M) |-> M[i][j]]

\* M @ N for an r x m matrix M and an m x w matrix N with m >= 1
MatMul(M, N) ==
    [i \in 1..Len(M) |-> [j \in 1..Len(N[1]) |-> Dot(M[i], Column(N, j))]]

Array(M, w) == [shape |-> <<Len(M), w>>, rows |-> M]

\* np.vstack of two arrays with the same number of columns
vstack(M, N) ==
    [shape |-> <<M.shape[1] + N.shape[1], M.shape[2]>>, rows |-> M.rows \o N.rows]

\* np.hstack of two arrays with the same number of rows
hstack(M, N) ==
    [shape |-> <<M.shape[1], M.shape[2] + N.shape[2]>>,
     rows  |-> [i \in 1..M.shape[1] |-> M.rows[i] \o N.rows[i]]]

\* the sequence v without its entry at position j
Drop(v, j) == [i \in 1..(Len(v) - 1) |-> IF i < j THEN v[i] ELSE v[i + 1]]

\* M without row i and column j
Minor(M, i, j) == [r \in 1..(Len(M) - 1) |-> Drop(Drop(M, i)[r], j)]

RECURSIVE Det(_)
Det(M) ==
    IF M = <<>> THEN One
    ELSE LET Term(j) == RMul(RMul(RInt(IF j % 2 = 1 THEN 1 ELSE -1), M[1][j]),
                             Det(Minor(M, 1, j)))
         IN  SumSeq([j \in 1..Len(M) |-> Term(j)])

\* the inverse of a non-singular square matrix (adjugate over determinant)
MatInv(M) ==
    LET d == Det(M)
    IN  [i \in 1..Len(M) |-> [j \in 1..Len(M) |->
            RDiv(RMul(RInt(IF (i + j) % 2 = 0 THEN 1 ELSE -1), Det(Minor(M, j, i))), d)]]

(***************************************************************************)
(* lp_irl, lines 20-64: sizes, index helpers, the transition matrices.     *)
(***************************************************************************)
n == Len(S)

k == Len(A)

Range(v) == {v[i] : i \in 1..Len(v)}

\* list.index: the first position holding e
index(list, e) == CHOOSE i \in 1..Len(list) : list[i] = e /\ \A j \in 1..(i - 1) : list[j] # e

si(s) == index(S, s)

ai(a) == index(A, a)

\* a transition lookup that takes T to be action-major (all rows of action
\* a_0, then all rows of a_1, ...)
trans_action_major(s1, a, s2) == T[(ai(a) - 1) * n + si(s1)][si(s2)]

\* T[si(s1) * k + ai(a), si(s2)] with 0-based indices
trans(s1, a, s2) == T[(si(s1) - 1) * k + (ai(a) - 1) + 1][si(s2)]

trans_mat(policy) ==
    [i \in 1..n |-> [j \in 1..n |-> trans(S[i], policy[S[i]], S[j])]]

\* list.remove: the list without the first occurrence of e
remove(list, e) == Drop(list, index(list, e))

\* Atmp[i] after Atmp.remove(pi[from_state]), i 0-based
non_policy_action(from_state, i) == remove(A, pi[from_state])[i + 1]

build_Tnotpi ==
    [i \in 0..(k - 2) |->
        [r \in 1..n |-> [j \in 1..n |-> trans(S[r], non_policy_action(S[r], i), S[j])]]]

\* np.identity(n) - gamma * Tpi
discounted_term == MatSub(identity(n), MatScale(gamma, Tpi))

(***************************************************************************)
(* The four assembly stages.  Each takes and returns the triple            *)
(* <<c, A_ub, b_ub>>; the parameters are named cc, AA, bb.                 *)
(***************************************************************************)
\* -1 * (Tpi - Tnotpi[i]) @ T_disc_inv
constraint_rows(i) == MatMul(MatScale(RInt(-1), MatSub(Tpi, Tnotpi[i])), T_disc_inv)

RECURSIVE optimal_policy_loop(_, _, _, _)
optimal_policy_loop(i, cc, AA, bb) ==
    IF i >= k - 1 THEN <<cc, AA, bb>>
    ELSE LET rows == Array(constraint_rows(i), n)
         IN  optimal_policy_loop(i + 1, cc, vstack(AA, rows),
                                 bb \o [r \in 1..rows.shape[1] |-> Zero])

add_optimal_policy_constraints(cc, AA, bb) == optimal_policy_loop(0, cc, AA, bb)

RECURSIVE costly_single_step_loop(_, _, _, _, _)
costly_single_step_loop(i, css_offset, cc, AA, bb) ==
    IF i >= k - 1 THEN <<cc, AA, bb>>
    ELSE LET block == Array(constraint_rows(i), n)
             min_operator_entries == Array(identity(n), n)
             num_padding_cols == css_offset - n
             padding_entries == Array(zeros(block.shape[1], num_padding_cols),
                                      num_padding_cols)
             rows == hstack(hstack(block, padding_entries), min_operator_entries)
         IN  costly_single_step_loop(i + 1, css_offset, cc, vstack(AA, rows),
                                     bb \o [r \in 1..rows.shape[1] |-> Zero])

add_costly_single_step_constraints(cc, AA, bb) ==
    LET c2 == cc \o MatScale(RInt(-1), <<ones(n)>>)[1]
        css_offset == Len(c2) - n
        A2 == hstack(AA, Array(zeros(AA.shape[1], n), n))
    IN  costly_single_step_loop(0, css_offset, c2, A2, bb)

RECURSIVE rmax_loop(_, _, _, _, _)
rmax_loop(i, cc, AA, bb, rmax) ==
    IF i >= n THEN <<cc, AA, bb>>
    ELSE LET constraint_row == [j \in 1..AA.shape[2] |-> IF j = i + 1 THEN One ELSE Zero]
         IN  rmax_loop(i + 1, cc, vstack(AA, Array(<<constraint_row>>, AA.shape[2])),
                       bb \o <<RInt(rmax)>>, rmax)

\* a bound loop that starts at the second state
add_rmax_constraints_skip_first(cc, AA, bb, rmax) == rmax_loop(1, cc, AA, bb, rmax)

add_rmax_constraints(cc, AA, bb, rmax) == rmax_loop(0, cc, AA, bb, rmax)

RECURSIVE l1norm_loop(_, _, _, _, _)
l1norm_loop(i, l1_offset, cc, AA, bb) ==
    IF i >= n THEN <<cc, AA, bb>>
    ELSE LET w == AA.shape[2]
             constraint_row_1 == [j \in 1..w |-> IF j = i + 1 THEN RInt(-1) ELSE Zero]
             constraint_row_2 == [j \in 1..w |->
                                    IF j = l1_offset + i + 1 THEN RInt(-1)
                                    ELSE IF j = i + 1 THEN One ELSE Zero]
         IN  l1norm_loop(i + 1, l1_offset, cc,
                         vstack(vstack(AA, Array(<<constraint_row_1>>, w)),
                                Array(<<constraint_row_2>>, w)),
                         bb \o <<Zero, Zero>>)

\* an l1 stage that takes its column offset before c is extended
add_l1norm_constraints_stale_offset(cc, AA, bb, l1w) ==
    LET c2 == cc \o MatScale(RInt(l1w), <<ones(n)>>)[1]
        l1_offset == Len(cc) - n
        A2 == hstack(AA, Array(zeros(AA.shape[1], n), n))
    IN  l1norm_loop(0, l1_offset, c2, A2, bb)

add_l1norm_constraints(cc, AA, bb, l1w) ==
    LET c2 == cc \o MatScale(RInt(l1w), <<ones(n)>>)[1]
        l1_offset == Len(c2) - n
        A2 == hstack(AA, Array(zeros(AA.shape[1], n), n))
    IN  l1norm_loop(0, l1_offset, c2, A2, bb)

(***************************************************************************)
(* The steps of one call.                                                  *)
(***************************************************************************)
NoRes == [status |-> -1, x |-> <<>>]

NoPrev == [c |-> <<>>, A_ub |-> Array(<<>>, 0), b_ub |-> <<>>, rewards |-> <<>>]

\* the locals of a call that has computed nothing yet
Fresh ==
    /\ Tpi = <<>> /\ Tnotpi = <<>> /\ T_disc_inv = <<>> /\ inv_called = FALSE
    /\ c = <<>> /\ A_ub = Array(<<>>, 0) /\ b_ub = <<>>
    /\ res = NoRes /\ rewards = <<>> /\ error = "none"

\* what np.empty may hold: whatever the allocator left there
UninitVals == {Zero, One}

\* line 43
BuildTpi ==
    /\ pc = "start"
    /\ Tpi' = trans_mat(pi)
    /\ pc' = "tpi"
    /\ UNCHANGED <<inputs, call, Tnotpi, T_disc_inv, inv_called, c, A_ub, b_ub,
                   res, rewards, error, prev>>

\* lines 47-58
BuildTnotpi ==
    /\ pc = "tpi"
    /\ Tnotpi' = build_Tnotpi
    /\ pc' = "tnotpi"
    /\ UNCHANGED <<inputs, call, Tpi, T_disc_inv, inv_called, c, A_ub, b_ub,
                   res, rewards, error, prev>>

\* line 64: np.linalg.inv raises LinAlgError on a singular matrix
Invert ==
    /\ pc = "tnotpi"
    /\ inv_called' = TRUE
    /\ IF Det(discounted_term) = Zero
       THEN /\ error' = "LinAlgError"
            /\ pc' = "raised"
            /\ UNCHANGED T_disc_inv
       ELSE /\ T_disc_inv' = MatInv(discounted_term)
            /\ pc' = "inverted"
            /\ UNCHANGED error
    /\ UNCHANGED <<inputs, call, Tpi, Tnotpi, c, A_ub, b_ub, res, rewards, prev>>

\* lines 71-73: c is np.empty, so its n entries are not set by the program
PrepareLP ==
    /\ pc = "inverted"
    /\ c' \in [1..n -> UninitVals]
    /\ A_ub' = Array(<<>>, n)
    /\ b_ub' = <<>>
    /\ pc' = "prepared"
    /\ UNCHANGED <<inputs, call, Tpi, Tnotpi, T_disc_inv, inv_called, res, rewards,
                   error, prev>>

Stage(from, to, triple) ==
    /\ pc = from
    /\ c' = triple[1]
    /\ A_ub' = triple[2]
    /\ b_ub' = triple[3]
    /\ pc' = to
    /\ UNCHANGED <<inputs, call, Tpi, Tnotpi, T_disc_inv, inv_called, res, rewards,
                   error, prev>>

\* line 183
AddOptimalPolicy == Stage("prepared", "stage1", add_optimal_policy_constraints(c, A_ub, b_ub))

\* line 184
AddCostlySingleStep ==
    Stage("stage1", "stage2", add_costly_single_step_constraints(c, A_ub, b_ub))

\* line 185
AddRmax == Stage("stage2", "stage3", add_rmax_constraints(c, A_ub, b_ub, Rmax))

\* line 186
AddL1Norm == Stage("stage3", "stage4", add_l1norm_constraints(c, A_ub, b_ub, l1))

(***************************************************************************)
(* scipy.optimize.linprog(c, A_ub, b_ub, method="interior-point") with     *)
(* its default bounds x >= 0.  The search is over the lattice              *)
(* (0..XMax)^m: the rows are scaled to integers, the result is a lattice   *)
(* point of least objective among the feasible ones, and the status is     *)
(* scipy's: 0 optimal, 2 infeasible, 3 unbounded (a ray d >= 0 with        *)
(* A_ub d <= 0 and c d < 0 exists).                                        *)
(***************************************************************************)
RECURSIVE LcmDen(_)
LcmDen(v) ==
    IF v = <<>> THEN 1
    ELSE LET rest == LcmDen(Tail(v))
             d == Head(v)[2]
         IN  (d * rest) \div GCD(d, rest)

\* the finite rational vector v times the positive integer m, as integers
Scaled(v, m) == [j \in 1..Len(v) |-> v[j][1] * (m \div v[j][2])]

\* the non-zero entries of an integer vector, as <<position, coefficient>> pairs
RECURSIVE Sparse(_, _)
Sparse(u, j) ==
    IF j = 0 THEN <<>>
    ELSE IF u[j] = 0 THEN Sparse(u, j - 1)
    ELSE Append(Sparse(u, j - 1), <<j, u[j]>>)

RECURSIVE IntDot(_, _, _)
IntDot(u, x, t) == IF t = 0 THEN 0 ELSE u[t][2] * x[u[t][1]] + IntDot(u, x, t - 1)

lattice_search(cS, rowsS, bI, m) ==
    LET nr == Len(rowsS)
        Holds(x, r) == IntDot(rowsS[r], x, Len(rowsS[r])) <= bI[r]
        Cost(x) == IntDot(cS, x, Len(cS))
        feasible == {x \in [1..m -> 0..XMax] : \A r \in 1..nr : Holds(x, r)}
        rays == {d \in [1..m -> 0..1] :
                    /\ Cost(d) < 0
                    /\ \A r \in 1..nr : IntDot(rowsS[r], d, Len(rowsS[r])) <= 0}
        values == {Cost(x) : x \in feasible}
        best == CHOOSE v \in values : \A w \in values : v <= w
        found == {x \in feasible : Cost(x) = best}
        AsFloats(x) == [j \in 1..m |-> RInt(x[j])]
    IN  IF feasible = {} THEN {[status |-> 2, x |-> [j \in 1..m |-> Zero]]}
        ELSE {[status |-> IF rays # {} THEN 3 ELSE 0, x |-> AsFloats(x)] : x \in found}

linprog(cc, AA, bb) ==
    LET m == Len(cc)
        den(r) == LcmDen(AA.rows[r] \o <<bb[r]>>)
        rowsS == [r \in 1..AA.shape[1] |-> Sparse(Scaled(AA.rows[r], den(r)), m)]
        bI == [r \in 1..AA.shape[1] |-> bb[r][1] * (den(r) \div bb[r][2])]
        cS == Sparse(Scaled(cc, LcmDen(cc)), m)
    IN  lattice_search(cS, rowsS, bI, m)

\* line 200; the status of res is never read afterwards
Solve ==
    /\ pc = "stage4"
    /\ res' \in linprog(c, A_ub, b_ub)
    /\ pc' = "solved"
    /\ UNCHANGED <<inputs, call, Tpi, Tnotpi, T_disc_inv, inv_called, c, A_ub, b_ub,
                   rewards, error, prev>>

(***************************************************************************)
(* Reward extraction, lines 207-221.                                       *)
(***************************************************************************)
np_min(vals) == CHOOSE v \in Range(vals) : \A w \in Range(vals) : RLe(v, w)

np_max(vals) == CHOOSE v \in Range(vals) : \A w \in Range(vals) : RLe(w, v)

\* a normalisation that divides by the maximum instead of the range
normalize_by_max(vals) ==
    LET min_val == np_min(vals)
        max_val == np_max(vals)
    IN  [i \in 1..Len(vals) |-> RDiv(RSub(vals[i], min_val), max_val)]

\* (vals - min_val) / (max_val - min_val); numpy divides by zero without raising
normalize(vals) ==
    LET min_val == np_min(vals)
        max_val == np_max(vals)
    IN  [i \in 1..Len(vals) |-> RDiv(RSub(vals[i], min_val), RSub(max_val, min_val))]

\* Rmax * normalize(res['x'][0:n])
extract(x, m, rmax) ==
    LET vals == SubSeq(x, 1, m)
        normed == normalize(vals)
    IN  [i \in 1..Len(normed) |-> RMul(RInt(rmax), normed[i])]

\* lines 219-221
Extract ==
    /\ pc = "solved"
    /\ rewards' = extract(res.x, n, Rmax)
    /\ pc' = "returned"
    /\ UNCHANGED <<inputs, call, Tpi, Tnotpi, T_disc_inv, inv_called, c, A_ub, b_ub,
                   res, error, prev>>

\* the caller calls lp_irl once more with the same arguments (lines 263);
\* every local of the first call is gone, prev remembers what it handed over
CallAgain ==
    /\ pc = "returned"
    /\ call = 1
    /\ call' = 2
    /\ prev' = [c |-> c, A_ub |-> A_ub, b_ub |-> b_ub, rewards |-> rewards]
    /\ Tpi' = <<>> /\ Tnotpi' = <<>> /\ T_disc_inv' = <<>> /\ inv_called' = FALSE
    /\ c' = <<>> /\ A_ub' = Array(<<>>, 0) /\ b_ub' = <<>>
    /\ res' = NoRes /\ rewards' = <<>> /\ error' = "none"
    /\ pc' = "start"
    /\ UNCHANGED inputs

(***************************************************************************)
(* Arguments.                                                              *)
(***************************************************************************)
Probs == {Zero, Rat(1, 2), One}

\* the probability distributions over m states with entries in Probs
Dists(m) == {d \in [1..m -> Probs] : SumSeq(d) = One}

\* the distributions that put all mass on one state
UnitDists(m) == {[j \in 1..m |-> IF j = t THEN One ELSE Zero] : t \in 1..m}

Policies(SS, AA) == [Range(SS) -> Range(AA)]

ActionNames == <<"b", "o", "x", "y", "z">>

\* arguments of the assembly: one or two states, 1..MaxActions actions; with
\* three or more actions the transitions are deterministic
InitAsm ==
    /\ S \in {<<"s0">>, <<"s0", "s1">>}
    /\ A \in {SubSeq(ActionNames, 1, kk) : kk \in 1..MaxActions}
    /\ T \in [1..(Len(S) * Len(A)) -> IF Len(A) <= 2 THEN Dists(Len(S)) ELSE UnitDists(Len(S))]
    /\ pi \in Policies(S, A)
    /\ gamma \in (IF Len(A) <= 2 THEN {Rat(1, 2), Rat(9, 10)} ELSE {Rat(9, 10)})
    /\ l1 \in {10}
    /\ Rmax \in {2}
    /\ pc = "start" /\ call = 1 /\ prev = NoPrev
    /\ Fresh

NextAsm ==
    \/ BuildTpi
    \/ BuildTnotpi
    \/ Invert
    \/ PrepareLP
    \/ AddOptimalPolicy
    \/ AddCostlySingleStep
    \/ AddRmax
    \/ AddL1Norm

SpecAsm == InitAsm /\ [][NextAsm]_vars

\* arguments of whole calls: two states, one or two actions
Init ==
    /\ S = <<"s0", "s1">>
    /\ A \in {<<"b">>, <<"b", "o">>}
    /\ T \in [1..(Len(S) * Len(A)) -> IF Len(A) = 1 THEN Dists(Len(S)) ELSE UnitDists(Len(S))]
    /\ pi \in Policies(S, A)
    /\ gamma \in {Rat(1, 2), One}
    /\ l1 \in {1, 10}
    /\ Rmax \in {2}
    /\ pc = "start" /\ call = 1 /\ prev = NoPrev
    /\ Fresh

Next ==
    \/ BuildTpi
    \/ BuildTnotpi
    \/ Invert
    \/ PrepareLP
    \/ AddOptimalPolicy
    \/ AddCostlySingleStep
    \/ AddRmax
    \/ AddL1Norm
    \/ Solve
    \/ Extract
    \/ CallAgain

Spec == Init /\ [][Next]_vars

\* solver results handed to the reward extraction: any vector whose first n
\* entries come from XVals, for n = 1..MaxExtractN
StateNames == <<"s0", "s1", "s2", "s3", "s4", "s5">>

XVals == {RInt(v) : v \in 0..XMax} \cup {Rat(1, 3)}

InitExtract ==
    /\ S \in {SubSeq(StateNames, 1, m) : m \in 1..MaxExtractN}
    /\ A = <<"b", "o">>
    /\ T = [r \in 1..(Len(S) * Len(A)) |-> [j \in 1..Len(S) |-> IF j = 1 THEN One ELSE Zero]]
    /\ pi = [s \in Range(S) |-> "b"]
    /\ gamma = Rat(9, 10)
    /\ l1 = 10
    /\ Rmax \in {2, 10}
    /\ pc = "solved" /\ call = 1 /\ prev = NoPrev
    /\ Tpi = <<>> /\ Tnotpi = <<>> /\ T_disc_inv = <<>> /\ inv_called = FALSE
    /\ c = <<>> /\ A_ub = Array(<<>>, 0) /\ b_ub = <<>>
    /\ rewards = <<>> /\ error = "none"
    /\ \E xs \in [1..Len(S) -> XVals], aux \in {Zero, RInt(XMax)} :
          res = [status |-> 0, x |-> xs \o [j \in 1..(2 * Len(S)) |-> aux]]

NextExtract == Extract

SpecExtract == InitExtract /\ [][NextExtract]_vars

(***************************************************************************)
(* The claims.                                                             *)
(***************************************************************************)
Assembling == pc \in {"prepared", "stage1", "stage2", "stage3", "stage4"}

\* the first m entries of x are all equal
AllEqual(x, m) == \A i, j \in 1..m : x[i] = x[j]

\* position in A of the policy's action at state number i
PolicyPos(i) == CHOOSE p \in 1..k : A[p] = pi[S[i]]

\* entry (i, j) of (Tpi - Tnotpi[idx]) @ T_disc_inv
Advantage(idx, i, j) ==
    SumSeq([m \in 1..n |-> RMul(RSub(Tpi[i][m], Tnotpi[idx][i][m]), T_disc_inv[m][j])])

\* C1: every returned reward vector makes the policy optimal: for every
\* deviation idx and state i, ((Tpi - Tnotpi[idx]) (I - gamma Tpi)^-1 R)_i >= 0.
RoundTripSound ==
    pc = "returned" =>
        \A idx \in 0..(k - 2) : \A i \in 1..n :
            RLe(Zero, SumSeq([j \in 1..n |-> RMul(Advantage(idx, i, j), rewards[j])]))

\* a returned reward vector without nan, after a successful solve, satisfies
\* the stage-1 inequalities: the rescaling shifts by a constant vector, which
\* the rows of Tpi - Tnotpi[idx] annihilate, and scales by a positive factor
RoundTripSoundWhenFinite ==
    (pc = "returned" /\ res.status = 0 /\ \A i \in 1..n : IsFinite(rewards[i])) =>
        \A idx \in 0..(k - 2) : \A i \in 1..n :
            RLe(Zero, SumSeq([j \in 1..n |-> RMul(Advantage(idx, i, j), rewards[j])]))

\* C2: after every stage A_ub has as many rows as b_ub and as many columns as
\* c, and the stages add (k-1)n rows; n columns and (k-1)n rows; n rows; n
\* columns and 2n rows: 2(k-1)n + 3n rows and 3n columns in the end.
DimensionAccounting ==
    Assembling =>
        /\ Len(A_ub.rows) = Len(b_ub)
        /\ \A r \in 1..Len(A_ub.rows) : Len(A_ub.rows[r]) = Len(c)
        /\ A_ub.shape = <<Len(b_ub), Len(c)>>
        /\ pc = "prepared" => Len(b_ub) = 0 /\ Len(c) = n
        /\ pc = "stage1" => Len(b_ub) = (k - 1) * n /\ Len(c) = n
        /\ pc = "stage2" => Len(b_ub) = 2 * (k - 1) * n /\ Len(c) = 2 * n
        /\ pc = "stage3" => Len(b_ub) = 2 * (k - 1) * n + n /\ Len(c) = 2 * n
        /\ pc = "stage4" => Len(b_ub) = 2 * (k - 1) * n + 3 * n /\ Len(c) = 3 * n

DimensionAccountingWitness ==
    pc = "stage4" /\ n = 2 /\ k = 3 /\ A_ub.shape = <<14, 6>> /\ Len(b_ub) = 14

\* C3: in the final system the reward variables are columns 0..n-1, the
\* margins columns n..2n-1 and the surrogates z columns 2n..3n-1: the
\* advantage blocks sit in the reward columns, the stage-2 row of state i has
\* +1 at column n+i, the stage-3 row its 1 at column i with bound Rmax, the
\* stage-4 rows are -R_i <= 0 and R_i - z_i <= 0, and c is -1 on the margins
\* and l1 on the surrogates.
ColumnLayout ==
    pc = "stage4" =>
        LET R == A_ub.rows
            base2 == (k - 1) * n
            base3 == 2 * (k - 1) * n
            base4 == base3 + n
        IN  /\ \A idx \in 0..(k - 2) : \A i \in 1..n :
                /\ \A j \in 1..n :
                      /\ R[idx * n + i][j] = RNeg(Advantage(idx, i, j))
                      /\ R[base2 + idx * n + i][j] = RNeg(Advantage(idx, i, j))
                /\ \A j \in (n + 1)..(3 * n) :
                      /\ R[idx * n + i][j] = Zero
                      /\ R[base2 + idx * n + i][j] = (IF j = n + i THEN One ELSE Zero)
                /\ b_ub[idx * n + i] = Zero
                /\ b_ub[base2 + idx * n + i] = Zero
            /\ \A i \in 1..n :
                /\ \A j \in 1..(3 * n) :
                      /\ R[base3 + i][j] = (IF j = i THEN One ELSE Zero)
                      /\ R[base4 + 2 * i - 1][j] = (IF j = i THEN RInt(-1) ELSE Zero)
                      /\ R[base4 + 2 * i][j] =
                            (IF j = i THEN One ELSE IF j = 2 * n + i THEN RInt(-1) ELSE Zero)
                /\ b_ub[base3 + i] = RInt(Rmax)
                /\ b_ub[base4 + 2 * i - 1] = Zero
                /\ b_ub[base4 + 2 * i] = Zero
                /\ c[n + i] = RInt(-1)
                /\ c[2 * n + i] = RInt(l1)

ColumnLayoutWitness ==
    /\ pc = "stage4" /\ n = 2 /\ k = 3
    /\ A_ub.rows[(k - 1) * n + 1][1] # Zero
    /\ A_ub.rows[(k - 1) * n + 1][n + 1] = One
    /\ A_ub.rows[2 * (k - 1) * n + n + 4][2 * n + 2] = RInt(-1)

\* C4: row i of Tnotpi[idx] is row i*k + j of T, a_j the idx-th action of A
\* with pi(s_i) left out; the k-1 deviations of a state use every non-policy
\* action once and never the policy action, and row i of Tpi is the policy
\* action's row.
DeviationRows ==
    pc \in {"tnotpi", "inverted", "prepared", "stage1", "stage2", "stage3", "stage4"} =>
        \A i \in 1..n :
            LET p == PolicyPos(i)
                j(idx) == IF idx + 1 < p THEN idx + 1 ELSE idx + 2
            IN  /\ Tpi[i] = T[(i - 1) * k + p]
                /\ DOMAIN Tnotpi = 0..(k - 2)
                /\ \A idx \in 0..(k - 2) :
                      /\ Tnotpi[idx][i] = T[(i - 1) * k + j(idx)]
                      /\ A[j(idx)] # pi[S[i]]
                /\ {j(idx) : idx \in 0..(k - 2)} \cup {p} = 1..k

DeviationRowsWitness ==
    /\ pc = "tnotpi" /\ n = 2 /\ k = 3
    /\ pi["s0"] = "o" /\ pi["s1"] = "b"
    /\ Tnotpi[0][1] # Tnotpi[1][1]
    /\ Tnotpi[0][1] # Tpi[1]

\* C5: for a solution whose first n entries are not all equal the reward
\* vector has length n, lies in [0, Rmax], is 0 at the minimum and Rmax at the
\* maximum, keeps the order, and is Rmax (x_i - min) / (max - min).
RewardRange ==
    (pc = "returned" /\ ~AllEqual(res.x, n)) =>
        /\ Len(rewards) = n
        /\ \E lo, hi \in 1..n :
              /\ \A i \in 1..n : RLe(res.x[lo], res.x[i]) /\ RLe(res.x[i], res.x[hi])
              /\ \A i \in 1..n :
                    /\ RLe(Zero, rewards[i]) /\ RLe(rewards[i], RInt(Rmax))
                    /\ res.x[i] = res.x[lo] => rewards[i] = Zero
                    /\ res.x[i] = res.x[hi] => rewards[i] = RInt(Rmax)
                    /\ RMul(rewards[i], RSub(res.x[hi], res.x[lo]))
                          = RMul(RInt(Rmax), RSub(res.x[i], res.x[lo]))
        /\ \A i, j \in 1..n : RLt(res.x[i], res.x[j]) <=> RLt(rewards[i], rewards[j])

RewardRangeWitness ==
    /\ pc = "returned" /\ n = 3 /\ ~AllEqual(res.x, n)
    /\ res.x[1] # Zero /\ res.x[2] # Zero /\ res.x[3] # Zero
    /\ \E i \in 1..n : RLt(Zero, rewards[i]) /\ RLt(rewards[i], RInt(Rmax))

\* C6: a solution whose first n entries are all equal ends the call with an
\* error; no returned reward vector holds nan or inf.  Stated of the calls
\* whose solve succeeded, so that a failed solve is not what refutes it.
DegenerateSolutionRaises ==
    (pc = "returned" /\ res.status = 0) =>
        /\ ~AllEqual(res.x, n)
        /\ \A i \in 1..Len(rewards) : IsFinite(rewards[i])

\* C7: when the solver reports anything but success the call fails and no
\* reward vector is extracted and returned.
SolverFailureSurfaced ==
    (pc \in {"solved", "returned"} /\ res.status # 0) => (pc # "returned" /\ rewards = <<>>)

\* C8: with gamma = 1 the call fails before np.linalg.inv is entered, and
\* nothing is assembled, solved or extracted.
GammaOneRejectedBeforeInversion ==
    gamma = One => (~inv_called /\ pc \in {"start", "tpi", "tnotpi", "raised"})

\* C9: with a single action stages 1 and 2 add no rows, the system is the n
\* stage-3 rows and 2n stage-4 rows over 3n columns, and the solve succeeds.
SingleActionSucceeds ==
    k = 1 =>
        /\ pc \in {"stage4", "solved", "returned"} => A_ub.shape = <<3 * n, 3 * n>>
        /\ pc \in {"solved", "returned"} => res.status = 0

\* C10: a second call on the same arguments hands the solver the same
\* (c, A_ub, b_ub) as the first and returns the same reward vector.  Stated
\* of the arguments with at least two actions.
SecondCallIdentical ==
    (call = 2 /\ k >= 2) =>
        /\ pc \in {"stage4", "solved", "returned"} =>
              c = prev.c /\ A_ub = prev.A_ub /\ b_ub = prev.b_ub
        /\ pc = "returned" => rewards = prev.rewards

====
